---- MODULE Spec2Model ----
(***************************************************************************)
(* mfract (src/main.rs): a textual fraction such as "35,6/12" is split     *)
(* into numerator and denominator, each side is converted to a             *)
(* (mantissa, decimal exponent) pair, the exponents are aligned with       *)
(* overflow-checked u64 arithmetic and the result is reduced by the        *)
(* Euclidean algorithm.                                                    *)
(*                                                                         *)
(* Strings are sequences of characters, a character is a one-letter TLA+   *)
(* string; "u0663" stands for the two-byte character U+0663                *)
(* (ARABIC-INDIC DIGIT THREE), a member of the Unicode class Nd that the   *)
(* regex crate's \d matches.                                               *)
(*                                                                         *)
(* A u64 is kept at its full width.  TLC's integers are 32 bits wide, so a *)
(* u64 value is a sequence of decimal digits, most significant first,      *)
(* without leading zeros (0 is the empty sequence); the operators of the   *)
(* first section are the arithmetic of the source on that representation.  *)
(***************************************************************************)
EXTENDS Integers, Sequences, FiniteSets, TLC

\* ------------------------------------------------------------------------
\* u64 arithmetic on decimal digit sequences
\* ------------------------------------------------------------------------

Zero == << >>

One == <<1>>

\* u64::MAX = 2^64 - 1 = 18446744073709551615
U64_MAX == <<1,8,4,4,6,7,4,4,0,7,3,7,0,9,5,5,1,6,1,5>>

\* u8::MAX
U8_MAX == 255

\* s without its leading zeros
StripZeros(s) ==
    LET nz == {i \in 1..Len(s) : s[i] # 0}
    IN  IF nz = {} THEN << >>
        ELSE SubSeq(s, CHOOSE i \in nz : \A j \in nz : i <= j, Len(s))

Front(s) == SubSeq(s, 1, Len(s) - 1)

Last(s) == s[Len(s)]

\* a < b
Less(a, b) ==
    \/ Len(a) < Len(b)
    \/ /\ Len(a) = Len(b)
       /\ \E i \in 1..Len(a) :
            /\ a[i] < b[i]
            /\ \A j \in 1..(i - 1) : a[j] = b[j]

LessEq(a, b) == ~Less(b, a)

\* the digit of a at position i counted from the least significant (i >= 1),
\* 0 beyond its length
DigitAt(a, i) == IF i <= Len(a) THEN a[Len(a) + 1 - i] ELSE 0

Longer(a, b) == IF Len(a) >= Len(b) THEN Len(a) ELSE Len(b)

\* a + b, exact (unbounded): the carry into position i comes from a lower
\* position that generates one, through positions that pass it on
Add(a, b) ==
    LET n == Longer(a, b)
        sum(i) == DigitAt(a, i) + DigitAt(b, i)
        carry(i) == \E j \in 1..(i - 1) :
                       /\ sum(j) >= 10
                       /\ \A h \in (j + 1)..(i - 1) : sum(h) = 9
        digit(i) == (sum(i) + (IF carry(i) THEN 1 ELSE 0)) % 10
    IN  StripZeros([h \in 1..(n + 1) |-> digit(n + 2 - h)])

\* a - b for a >= b
Sub(a, b) ==
    LET n == Len(a)
        borrow(i) == \E j \in 1..(i - 1) :
                        /\ DigitAt(a, j) < DigitAt(b, j)
                        /\ \A h \in (j + 1)..(i - 1) : DigitAt(a, h) = DigitAt(b, h)
        digit(i) == (10 + DigitAt(a, i) - DigitAt(b, i)
                        - (IF borrow(i) THEN 1 ELSE 0)) % 10
    IN  StripZeros([h \in 1..n |-> digit(n + 1 - h)])

Twice(a) == Add(a, a)

\* a * k for a small multiplier 0 <= k <= 10
MulDigit(a, k) ==
    LET a2 == Twice(a)
        a4 == Twice(a2)
        a8 == Twice(a4)
    IN  CASE k = 0  -> << >>
          [] k = 1  -> a
          [] k = 2  -> a2
          [] k = 3  -> Add(a2, a)
          [] k = 4  -> a4
          [] k = 5  -> Add(a4, a)
          [] k = 6  -> Add(a4, a2)
          [] k = 7  -> Add(a4, Add(a2, a))
          [] k = 8  -> a8
          [] k = 9  -> Add(a8, a)
          [] k = 10 -> Add(a8, a2)

TimesTen(a) == IF a = Zero THEN Zero ELSE Append(a, 0)

\* a * b, exact (unbounded)
RECURSIVE Mul(_, _)
Mul(a, b) ==
    IF b = << >> THEN Zero
    ELSE LET m == Mul(a, Front(b))
         IN  IF m = Zero THEN MulDigit(a, Last(b))
             ELSE Add(TimesTen(m), MulDigit(a, Last(b)))

\* 10^e, exact (unbounded)
Pow10(e) == [i \in 1..(e + 1) |-> IF i = 1 THEN 1 ELSE 0]

\* one step of the long division: p is the quotient and remainder of the
\* digits so far, d the next digit
DivStep(p, d, b) ==
    LET r1 == StripZeros(Append(p.r, d))
        k  == CHOOSE k \in 0..9 :
                 /\ LessEq(MulDigit(b, k), r1)
                 /\ Less(r1, MulDigit(b, k + 1))
    IN  [q |-> StripZeros(Append(p.q, k)), r |-> Sub(r1, MulDigit(b, k))]

\* quotient and remainder of a by b, b > 0 (schoolbook long division)
RECURSIVE DivMod(_, _)
DivMod(a, b) ==
    IF a = << >> THEN [q |-> Zero, r |-> Zero]
    ELSE LET p == DivMod(Front(a), b)
         IN  IF p.q = Zero /\ Less(Append(p.r, Last(a)), b)
             THEN [q |-> Zero, r |-> StripZeros(Append(p.r, Last(a)))]
             ELSE DivStep(p, Last(a), b)

\* the u64 operators / and % (the divisor is not 0)
Div(a, b) == DivMod(a, b).q

Mod(a, b) == DivMod(a, b).r

None == [tag |-> "None"]

Some(v) == [tag |-> "Some", val |-> v]

\* a faulty variant of checked_mul, u64::wrapping_mul: C6 tells it apart
wrapping_mul(a, b) == Some(Mod(Mul(a, b), Append(Front(U64_MAX), Last(U64_MAX) + 1)))

\* u64::checked_mul
checked_mul(a, b) ==
    LET p == Mul(a, b)
    IN  IF Less(U64_MAX, p) THEN None ELSE Some(p)

\* 10_u64.checked_pow(e)
checked_pow10(e) ==
    LET p == Pow10(e)
    IN  IF Less(U64_MAX, p) THEN None ELSE Some(p)

\* ------------------------------------------------------------------------
\* characters and strings
\* ------------------------------------------------------------------------

AsciiDigit == <<"0", "1", "2", "3", "4", "5", "6", "7", "8", "9">>

AsciiDigits == {AsciiDigit[i] : i \in 1..10}

\* the decimal digits beyond ASCII that \d matches (one representative)
UnicodeDigits == {"u0663"}

\* the regex class \d: Unicode-aware, \p{Nd}
IsDigitChar(c) == c \in AsciiDigits \cup UnicodeDigits

\* char::to_digit(10): the value of an ASCII digit
DigitVal(c) == (CHOOSE i \in 1..10 : AsciiDigit[i] = c) - 1

\* the UTF-8 length of a character in bytes
Utf8Len(c) == IF c \in UnicodeDigits THEN 2 ELSE 1

\* String::len(): the length in bytes
ByteLen(s) ==
    Len(s) + Cardinality({i \in 1..Len(s) : Utf8Len(s[i]) = 2})


\* ------------------------------------------------------------------------
\* results
\* ------------------------------------------------------------------------

Ok(v) == [tag |-> "Ok", val |-> v]

Err(code, msg) == [tag |-> "Err", code |-> code, msg |-> msg]

MyNum(m, e) == [mant |-> m, exp |-> e]

Fract(n, d) == [numer |-> n, denom |-> d]

\* ------------------------------------------------------------------------
\* the four regular expressions (all anchored with \A ... \z)
\* ------------------------------------------------------------------------

NoSlash(s) == \A i \in 1..Len(s) : s[i] # "/"

AllDigits(s) == \A i \in 1..Len(s) : IsDigitChar(s[i])

\* RX_FRACT1  \A ([^/]+) \z : the capture group, or None
RX_FRACT1(s) ==
    IF s # << >> /\ NoSlash(s) THEN Some(<<s>>) ELSE None

\* a faulty variant of RX_FRACT2, ([^/]*) / ([^/]*) with segments that may
\* be empty: C4 tells it apart
RX_FRACT2_star(s) ==
    LET at == {i \in 1..Len(s) :
                 /\ s[i] = "/"
                 /\ NoSlash(SubSeq(s, 1, i - 1))
                 /\ NoSlash(SubSeq(s, i + 1, Len(s)))}
    IN  IF at = {} THEN None
        ELSE LET i == CHOOSE i \in at : TRUE
             IN  Some(<<SubSeq(s, 1, i - 1), SubSeq(s, i + 1, Len(s))>>)

\* RX_FRACT2  \A ([^/]+) / ([^/]+) \z : the two capture groups, or None
RX_FRACT2(s) ==
    LET at == {i \in 1..Len(s) :
                 /\ s[i] = "/"
                 /\ i > 1 /\ i < Len(s)
                 /\ NoSlash(SubSeq(s, 1, i - 1))
                 /\ NoSlash(SubSeq(s, i + 1, Len(s)))}
    IN  IF at = {} THEN None
        ELSE LET i == CHOOSE i \in at : TRUE
             IN  Some(<<SubSeq(s, 1, i - 1), SubSeq(s, i + 1, Len(s))>>)

\* RX_NUM1  \A \d+ \z
RX_NUM1(s) == s # << >> /\ AllDigits(s)

\* RX_NUM2  \A (\d+) [,\.] (\d+) \z : the two capture groups, or None
RX_NUM2(s) ==
    LET at == {i \in 1..Len(s) :
                 /\ s[i] \in {",", "."}
                 /\ i > 1 /\ i < Len(s)
                 /\ AllDigits(SubSeq(s, 1, i - 1))
                 /\ AllDigits(SubSeq(s, i + 1, Len(s)))}
    IN  IF at = {} THEN None
        ELSE LET i == CHOOSE i \in at : TRUE
             IN  Some(<<SubSeq(s, 1, i - 1), SubSeq(s, i + 1, Len(s))>>)

\* ------------------------------------------------------------------------
\* get_num
\* ------------------------------------------------------------------------

\* str::parse::<u64>(): an optional leading "+", then ASCII digits only;
\* None for an empty string, a character that is no ASCII digit, or a value
\* above u64::MAX
parse_u64(s) ==
    LET t == IF Len(s) > 1 /\ Head(s) = "+" THEN Tail(s) ELSE s
    IN  IF t = << >> \/ \E i \in 1..Len(t) : t[i] \notin AsciiDigits
        THEN None
        ELSE LET v == StripZeros([i \in 1..Len(t) |-> DigitVal(t[i])])
             IN  IF Less(U64_MAX, v) THEN None ELSE Some(v)

\* u8::try_from(n).unwrap_or(0)
u8_or_0(n) == IF n <= U8_MAX THEN n ELSE 0

Label(stype) == IF stype = "Num" THEN "Numerator" ELSE "Denominator"

\* the (digit string, exponent) get_num takes from sval, or None
get_num_parts(sval) ==
    IF RX_NUM1(sval)
    THEN Some([gn_mant |-> sval, gn_exp |-> 0])
    ELSE LET s == RX_NUM2(sval)
         IN  IF s.tag = "Some"
             THEN Some([gn_mant |-> s.val[1] \o s.val[2],
                        gn_exp  |-> u8_or_0(ByteLen(s.val[2]))])
             ELSE None

get_num(stype, sval) ==
    LET parts == get_num_parts(sval)
    IN  IF parts.tag = "None"
        THEN Err(22, <<"Can't parse", Label(stype), sval>>)
        ELSE LET v == parse_u64(parts.val.gn_mant)
             IN  IF v.tag = "Some"
                 THEN Ok(MyNum(v.val, parts.val.gn_exp))
                 ELSE Err(24, <<"Integer overflow", Label(stype), sval>>)

\* ------------------------------------------------------------------------
\* get_fract: splitter and aligner
\* ------------------------------------------------------------------------

\* the numerator and denominator substrings, or error 14
split_fract(inp_fract) ==
    LET s1 == RX_FRACT1(inp_fract)
        s2 == RX_FRACT2(inp_fract)
    IN  IF s1.tag = "Some"
        THEN Ok([inp_nom |-> s1.val[1], inp_den |-> <<"1">>])
        ELSE IF s2.tag = "Some"
        THEN Ok([inp_nom |-> s2.val[1], inp_den |-> s2.val[2]])
        ELSE Err(14, <<"Could not parse fraction">>)

\* exp_p10 = |val_num.exp - val_den.exp| in u8
abs_diff(val_num, val_den) ==
    IF val_num.exp > val_den.exp
    THEN val_num.exp - val_den.exp
    ELSE val_den.exp - val_num.exp

\* opt_p10 and its check
power_of_ten(exp_p10) ==
    LET opt_p10 == checked_pow10(exp_p10)
    IN  IF opt_p10.tag = "None"
        THEN Err(16, <<"p10 overflow for 10 ^", exp_p10>>)
        ELSE Ok(opt_p10.val)

\* a faulty variant of scale_sides that leaves both mantissas as they are:
\* C2 tells it apart
scale_sides_unscaled(val_num, val_den, val_p10) ==
    Ok(Fract(val_num.mant, val_den.mant))

\* mfr_dat: the unreduced fraction, or error 18 / 20
scale_sides(val_num, val_den, val_p10) ==
    IF val_num.exp > val_den.exp
    THEN LET opt_den == checked_mul(val_den.mant, val_p10)
         IN  IF opt_den.tag = "None"
             THEN Err(18, <<"Denominator overflow", val_den.mant, val_p10>>)
             ELSE Ok(Fract(val_num.mant, opt_den.val))
    ELSE LET opt_num == checked_mul(val_num.mant, val_p10)
         IN  IF opt_num.tag = "None"
             THEN Err(20, <<"Numerator overflow", val_num.mant, val_p10>>)
             ELSE Ok(Fract(opt_num.val, val_den.mant))

\* ------------------------------------------------------------------------
\* get_norm
\* ------------------------------------------------------------------------

\* a faulty variant of norm_early without the check of the denominator:
\* C7 tells it apart
norm_early_unchecked(fr) ==
    IF fr.numer = Zero THEN Some(Ok(Fract(Zero, One))) ELSE None

\* a faulty variant of norm_early that looks at the numerator first: C8 tells
\* it apart
norm_early_swapped(fr) ==
    IF fr.numer = Zero
    THEN Some(Ok(Fract(Zero, One)))
    ELSE IF fr.denom = Zero
    THEN Some(Err(26, <<"Division by zero">>))
    ELSE None

\* the two early returns of get_norm, or None to go on to the loop
norm_early(fr) ==
    IF fr.denom = Zero
    THEN Some(Err(26, <<"Division by zero">>))
    ELSE IF fr.numer = Zero
    THEN Some(Ok(Fract(Zero, One)))
    ELSE None

\* a faulty variant of loop_body without tmp (xb = xa % xb; xa = xb): C10
\* tells it apart
loop_body_no_tmp(a, b) == [xa |-> Mod(a, b), xb |-> Mod(a, b)]

\* one pass of the loop body: tmp = xb; xb = xa % xb; xa = tmp
loop_body(a, b) == [xa |-> b, xb |-> Mod(a, b)]

\* a faulty variant of norm_result that divides the numerator only: C1 tells
\* it apart
norm_result_numer_only(fr, g) ==
    IF g = Zero THEN [tag |-> "Panic"]
    ELSE Ok(Fract(Div(fr.numer, g), fr.denom))

\* the u64 division of the last line panics on a zero divisor
Panic == [tag |-> "Panic"]

norm_result(fr, g) ==
    IF g = Zero THEN Panic
    ELSE Ok(Fract(Div(fr.numer, g), Div(fr.denom, g)))

\* ------------------------------------------------------------------------
\* inputs
\* ------------------------------------------------------------------------

\* the longest input string of the exhaustive part
MaxLen == 4

\* the largest numerator and denominator of a direct call of get_norm
MaxN == 12

\* the number of leading zeros of the zero-padded integer
LeadZeros == 25

Alphabet == {"0", "5", ",", "/", "x", "u0663"}

RECURSIVE Strings(_)
Strings(n) ==
    IF n = 0 THEN {<< >>}
    ELSE LET shorter == Strings(n - 1)
         IN  shorter \cup {Append(s, c) : s \in {t \in shorter : Len(t) = n - 1},
                                          c \in Alphabet}

\* the decimal text of a u64 value or digit sequence
Text(digits) == [i \in 1..Len(digits) |-> AsciiDigit[digits[i] + 1]]

Zeros(k) == [i \in 1..k |-> "0"]

RECURSIVE FromInt(_)
FromInt(n) == IF n = 0 THEN Zero ELSE Append(FromInt(n \div 10), n % 10)

\* 2^64 = u64::MAX + 1
TwoTo64 == Append(Front(U64_MAX), Last(U64_MAX) + 1)

\* integers at and around the u64 limits: 2^64 - 1, 2^64, 10^18, 10^19,
\* 10^20, (2^64 - 1) div 10 and the next integer, and a zero-padded 7
BigSides ==
    { Text(U64_MAX),
      Text(TwoTo64),
      Text(Pow10(Len(U64_MAX) - 2)),
      Text(Pow10(Len(U64_MAX) - 1)),
      Text(Pow10(Len(U64_MAX))),
      Text(Front(U64_MAX)),
      Text(Append(Front(Front(U64_MAX)), Last(Front(U64_MAX)) + 1)),
      Zeros(LeadZeros) \o <<"7">> }

\* the lengths of the long fractional parts
FracLens == {15, Len(U64_MAX) - 1, Len(U64_MAX), U8_MAX, U8_MAX + 1}

\* decimals with long fractional parts: 0,0...01 and 0,0...0
DecSides ==
    {<<"0", ",">> \o Zeros(f - 1) \o <<"1">> : f \in FracLens}
    \cup {<<"0", ".">> \o Zeros(f) : f \in {Len(U64_MAX), U8_MAX + 1}}
    \cup {<<"0", ",">> \o Text(U64_MAX)}

\* short sides, among them those of the examples "35,6/12", "0/5", "7"
Probes ==
    { <<"0">>, <<"1">>, <<"3">>, <<"7">>, <<"1", "2">>, <<"0", ",", "0">>,
      <<"0", ".", "5">>, <<"3", "5", ",", "6">>, <<"4", "8", "6">>, <<"x">> }

Sides == BigSides \cup DecSides \cup Probes

Slashed(pairs) == {p[1] \o <<"/">> \o p[2] : p \in pairs}

LongInputs ==
    Sides
    \cup Slashed((Sides \X Probes) \cup (Probes \X Sides))
    \cup Slashed((Sides \X DecSides) \cup (DecSides \X Sides))
    \cup {<<"1", "/", "2", "/", "3">>, <<"1", "2", "/">>}

\* the arguments of get_fract
Inputs == Strings(MaxLen) \cup LongInputs

\* the arguments of a direct call of get_norm
NormInputs == {Fract(FromInt(n), FromInt(d)) : n \in 0..MaxN, d \in 0..MaxN}

\* ------------------------------------------------------------------------
\* state
\* ------------------------------------------------------------------------

VARIABLES
    call,       \* the function called: "get_fract" or "get_norm"
    pc,         \* the position in it
    inp_fract,  \* the argument of get_fract
    inp_nom,    \* the numerator substring, None before the split
    inp_den,    \* the denominator substring, None before the split
    val_num,    \* Some(MyNum) once the numerator is converted
    val_den,    \* Some(MyNum) once the denominator is converted
    exp_p10,    \* Some(the exponent difference)
    val_p10,    \* Some(10 ^ exp_p10)
    mfr_dat,    \* Some(the unreduced Fract), the argument of get_norm
    xa,         \* the loop variables of get_norm
    xb,
    iters,      \* the number of passes of the loop body so far
    result      \* None while running, then Ok(Fract), Err(code, msg) or Panic

vars == <<call, pc, inp_fract, inp_nom, inp_den, val_num, val_den, exp_p10,
          val_p10, mfr_dat, xa, xb, iters, result>>

Init ==
    /\ \/ /\ call = "get_fract"
          /\ pc = "split"
          /\ inp_fract \in Inputs
          /\ mfr_dat = None
       \/ /\ call = "get_norm"
          /\ pc = "norm"
          /\ inp_fract = << >>
          /\ mfr_dat \in {Some(fr) : fr \in NormInputs}
    /\ inp_nom = None
    /\ inp_den = None
    /\ val_num = None
    /\ val_den = None
    /\ exp_p10 = None
    /\ val_p10 = None
    /\ xa = Zero
    /\ xb = Zero
    /\ iters = 0
    /\ result = None

\* a faulty variant of next_stage that converts the denominator before the
\* numerator: C9 tells it apart
next_stage_den_first(stage) ==
    CASE stage = "split" -> "den"
      [] stage = "den"   -> "num"
      [] stage = "num"   -> "p10"
      [] stage = "p10"   -> "scale"
      [] stage = "scale" -> "norm"

\* the statement that follows a stage of get_fract that did not fail
next_stage(stage) ==
    CASE stage = "split" -> "num"
      [] stage = "num"   -> "den"
      [] stage = "den"   -> "p10"
      [] stage = "p10"   -> "scale"
      [] stage = "scale" -> "norm"

\* return Err(..) / the ? operator: the call ends with the error
Return(r) ==
    /\ result' = r
    /\ pc' = "done"

\* lines 53-63
Split ==
    /\ pc = "split"
    /\ LET r == split_fract(inp_fract)
       IN  IF r.tag = "Ok"
           THEN /\ inp_nom' = Some(r.val.inp_nom)
                /\ inp_den' = Some(r.val.inp_den)
                /\ pc' = next_stage(pc)
                /\ UNCHANGED result
           ELSE /\ Return(r)
                /\ UNCHANGED <<inp_nom, inp_den>>
    /\ UNCHANGED <<call, inp_fract, val_num, val_den, exp_p10, val_p10,
                   mfr_dat, xa, xb, iters>>

\* line 65
ConvertNum ==
    /\ pc = "num"
    /\ LET r == get_num("Num", inp_nom.val)
       IN  IF r.tag = "Ok"
           THEN /\ val_num' = Some(r.val)
                /\ pc' = next_stage(pc)
                /\ UNCHANGED result
           ELSE /\ Return(r)
                /\ UNCHANGED val_num
    /\ UNCHANGED <<call, inp_fract, inp_nom, inp_den, val_den, exp_p10,
                   val_p10, mfr_dat, xa, xb, iters>>

\* line 66
ConvertDen ==
    /\ pc = "den"
    /\ LET r == get_num("Den", inp_den.val)
       IN  IF r.tag = "Ok"
           THEN /\ val_den' = Some(r.val)
                /\ pc' = next_stage(pc)
                /\ UNCHANGED result
           ELSE /\ Return(r)
                /\ UNCHANGED val_den
    /\ UNCHANGED <<call, inp_fract, inp_nom, inp_den, val_num, exp_p10,
                   val_p10, mfr_dat, xa, xb, iters>>

\* lines 68-82
PowerOfTen ==
    /\ pc = "p10"
    /\ LET e == abs_diff(val_num.val, val_den.val)
           r == power_of_ten(e)
       IN  /\ exp_p10' = Some(e)
           /\ IF r.tag = "Ok"
              THEN /\ val_p10' = Some(r.val)
                   /\ pc' = next_stage(pc)
                   /\ UNCHANGED result
              ELSE /\ Return(r)
                   /\ UNCHANGED val_p10
    /\ UNCHANGED <<call, inp_fract, inp_nom, inp_den, val_num, val_den,
                   mfr_dat, xa, xb, iters>>

\* lines 84-102
Scale ==
    /\ pc = "scale"
    /\ LET r == scale_sides(val_num.val, val_den.val, val_p10.val)
       IN  IF r.tag = "Ok"
           THEN /\ mfr_dat' = Some(r.val)
                /\ pc' = next_stage(pc)
                /\ UNCHANGED result
           ELSE /\ Return(r)
                /\ UNCHANGED mfr_dat
    /\ UNCHANGED <<call, inp_fract, inp_nom, inp_den, val_num, val_den,
                   exp_p10, val_p10, xa, xb, iters>>

\* lines 139-151: the call of get_norm up to the loop
NormEnter ==
    /\ pc = "norm"
    /\ LET r == norm_early(mfr_dat.val)
       IN  IF r.tag = "Some"
           THEN /\ Return(r.val)
                /\ UNCHANGED <<xa, xb>>
           ELSE /\ xa' = mfr_dat.val.numer
                /\ xb' = mfr_dat.val.denom
                /\ pc' = "loop"
                /\ UNCHANGED result
    /\ UNCHANGED <<call, inp_fract, inp_nom, inp_den, val_num, val_den,
                   exp_p10, val_p10, mfr_dat, iters>>

\* lines 153-157: one pass of  while xb > 0 { ... }
LoopStep ==
    /\ pc = "loop"
    /\ xb # Zero
    /\ LET n == loop_body(xa, xb)
       IN  /\ xa' = n.xa
           /\ xb' = n.xb
    /\ iters' = iters + 1
    /\ UNCHANGED <<call, pc, inp_fract, inp_nom, inp_den, val_num, val_den,
                   exp_p10, val_p10, mfr_dat, result>>

\* line 159 (and line 104: get_fract returns what get_norm returns)
LoopExit ==
    /\ pc = "loop"
    /\ xb = Zero
    /\ Return(norm_result(mfr_dat.val, xa))
    /\ UNCHANGED <<call, inp_fract, inp_nom, inp_den, val_num, val_den,
                   exp_p10, val_p10, mfr_dat, xa, xb, iters>>

Next ==
    \/ Split
    \/ ConvertNum
    \/ ConvertDen
    \/ PowerOfTen
    \/ Scale
    \/ NormEnter
    \/ LoopStep
    \/ LoopExit

Spec == Init /\ [][Next]_vars

\* the call runs to its end: single-threaded code with no suspension point.
\* This is WF_vars(Next) with ENABLED <<Next>>_vars written as the state
\* predicate it equals: a step is possible exactly when the call has not
\* returned, and every step changes pc or iters.
FairSpec == Spec /\ ([]<>(pc = "done") \/ []<><<Next>>_vars)

\* ------------------------------------------------------------------------
\* vocabulary of the properties
\* ------------------------------------------------------------------------

IsErr(c) == result.tag = "Err" /\ result.code = c

IsOk == result.tag = "Ok"

\* the value of a short digit sequence as an integer
RECURSIVE ToInt(_)
ToInt(a) == IF a = << >> THEN 0 ELSE ToInt(Front(a)) * 10 + Last(a)

\* the remainder of a by the integer k >= 1
RECURSIVE RemInt(_, _)
RemInt(a, k) == IF a = << >> THEN 0 ELSE (RemInt(Front(a), k) * 10 + Last(a)) % k

Min(a, b) == IF Less(a, b) THEN a ELSE b

\* k divides both a and b
CommonDivisor(k, a, b) == RemInt(a, k) = 0 /\ RemInt(b, k) = 0

\* the largest candidate divisor tried on operands too long to enumerate
MaxDivisor == 1000

\* the candidates for a common divisor of a and b: all of them up to the
\* smaller operand when that has at most three digits, those up to
\* MaxDivisor beyond
Candidates(a, b) ==
    LET top == IF a = Zero THEN b ELSE IF b = Zero THEN a ELSE Min(a, b)
    IN  2..(IF Len(top) <= 3 THEN ToInt(top) ELSE MaxDivisor)

\* gcd(a, b) = 1 by definition: no k >= 2 divides both (every k divides 0)
Coprime(a, b) == \A k \in Candidates(a, b) : ~CommonDivisor(k, a, b)

\* g = gcd(a, b) for a, b >= 1: g divides both and the quotients share no
\* divisor
IsGCD(g, a, b) ==
    /\ g # Zero
    /\ Mul(Div(a, g), g) = a
    /\ Mul(Div(b, g), g) = b
    /\ Coprime(Div(a, g), Div(b, g))

\* a * 10^e, exact
Shift(a, e) == IF a = Zero THEN Zero ELSE a \o [i \in 1..e |-> 0]

SlashCount(s) == Cardinality({i \in 1..Len(s) : s[i] = "/"})

Str_35_6_12 == <<"3", "5", ",", "6", "/", "1", "2">>

\* ------------------------------------------------------------------------
\* C1
\* ------------------------------------------------------------------------

\* C1: whenever get_fract returns Ok, the returned Fract has denom >= 1 and
\* gcd(numer, denom) = 1 (zero is returned as {0, 1} only).
C1_Reduced ==
    (call = "get_fract" /\ IsOk) =>
        /\ LessEq(One, result.val.denom)
        /\ Coprime(result.val.numer, result.val.denom)
        /\ (result.val.numer = Zero => result.val.denom = One)

\* a call of get_fract returned a fraction that get_norm had to reduce
C1_Witness ==
    /\ call = "get_fract"
    /\ IsOk
    /\ result.val.numer # Zero
    /\ result.val # mfr_dat.val

\* ------------------------------------------------------------------------
\* C2
\* ------------------------------------------------------------------------

\* C2: whenever get_fract returns Ok({n, d}) from num = (mN, sN) and
\* den = (mD, sD), n * mD * 10^sN = d * mN * 10^sD in exact arithmetic;
\* "35,6/12" gives {89, 30}.
C2_SameRatio ==
    /\ (call = "get_fract" /\ IsOk) =>
          Shift(Mul(result.val.numer, val_den.val.mant), val_num.val.exp)
            = Shift(Mul(result.val.denom, val_num.val.mant), val_den.val.exp)
    /\ (inp_fract = Str_35_6_12 /\ pc = "done") =>
          result = Ok(Fract(<<8, 9>>, <<3, 0>>))

\* "35,6/12" was aligned (356/120) and reduced (89/30)
C2_Witness ==
    /\ inp_fract = Str_35_6_12
    /\ mfr_dat = Some(Fract(<<3, 5, 6>>, <<1, 2, 0>>))
    /\ result = Ok(Fract(<<8, 9>>, <<3, 0>>))

\* ------------------------------------------------------------------------
\* C3
\* ------------------------------------------------------------------------

Separators == {",", "."}

\* the number of characters after the separator, 0 without one
FracDigits(s) ==
    IF \E i \in 1..Len(s) : s[i] \in Separators
    THEN Len(s) - (CHOOSE i \in 1..Len(s) : s[i] \in Separators)
    ELSE 0

\* the characters of s that are no separator
DigitsOf(s) ==
    LET keep == {i \in 1..Len(s) : s[i] \notin Separators}
        nth(j) == CHOOSE i \in keep : Cardinality({h \in keep : h < i}) = j - 1
    IN  [j \in 1..Cardinality(keep) |-> s[nth(j)]]

\* the base-10 value of a string of the digits 0..9
ValueOf(s) == StripZeros([i \in 1..Len(s) |-> DigitVal(s[i])])

\* what get_num is claimed to return for the substring s
ClaimedNum(s) == MyNum(ValueOf(DigitsOf(s)), FracDigits(s))

\* C3: whenever get_num returns Ok for digits, separator, digits, the
\* mantissa is the value of the concatenated digits and the exponent is the
\* number of digits after the separator, whatever their number (256 or more
\* included); for a pure digit sequence the exponent is 0.
C3_ScaleIsFractionLength ==
    /\ val_num.tag = "Some" => val_num.val = ClaimedNum(inp_nom.val)
    /\ val_den.tag = "Some" => val_den.val = ClaimedNum(inp_den.val)

\* "0," followed by 255 zeros and a 1: get_num returned exponent 0 for 256
\* digits after the separator, and get_fract returned {1, 1}
C3_Witness ==
    /\ pc = "done"
    /\ inp_nom.tag = "Some"
    /\ FracDigits(inp_nom.val) = U8_MAX + 1
    /\ val_num = Some(MyNum(One, 0))
    /\ result = Ok(Fract(One, One))

\* ------------------------------------------------------------------------
\* C4
\* ------------------------------------------------------------------------

\* C4: with no '/' and a non-empty input the numerator substring is the
\* whole input and the denominator substring is "1" ("7" yields {7, 1});
\* with one '/' between two non-empty segments they are the left and the
\* right segment; in every other case the call fails with 14 and no number
\* is converted.
C4_Splitter ==
    /\ (call = "get_fract" /\ pc # "split") =>
          LET n == SlashCount(inp_fract)
              at == CHOOSE i \in 1..Len(inp_fract) : inp_fract[i] = "/"
          IN  IF n = 0 /\ inp_fract # << >>
              THEN /\ inp_nom = Some(inp_fract)
                   /\ inp_den = Some(<<"1">>)
                   /\ ~IsErr(14)
              ELSE IF n = 1 /\ at > 1 /\ at < Len(inp_fract)
              THEN /\ inp_nom = Some(SubSeq(inp_fract, 1, at - 1))
                   /\ inp_den = Some(SubSeq(inp_fract, at + 1, Len(inp_fract)))
                   /\ ~IsErr(14)
              ELSE /\ IsErr(14)
                   /\ pc = "done"
                   /\ inp_nom = None /\ inp_den = None
                   /\ val_num = None /\ val_den = None
    /\ (inp_fract = <<"7">> /\ pc = "done") => result = Ok(Fract(<<7>>, One))

\* an input with two '/' was refused with 14
C4_Witness ==
    /\ pc = "done"
    /\ SlashCount(inp_fract) = 2
    /\ IsErr(14)
    /\ val_num = None

\* ------------------------------------------------------------------------
\* C5
\* ------------------------------------------------------------------------

PlainDigits(s) == s # << >> /\ \A i \in 1..Len(s) : s[i] \in AsciiDigits

\* digits, or digits separator digits, over the digits 0..9
NumberShape(s) ==
    \/ PlainDigits(s)
    \/ \E i \in 1..Len(s) :
          /\ s[i] \in Separators
          /\ PlainDigits(SubSeq(s, 1, i - 1))
          /\ PlainDigits(SubSeq(s, i + 1, Len(s)))

\* the claimed outcome of get_num(s): val is its Ok value or None, res the
\* result of the call of get_fract
ClaimedConversion(s, val, res) ==
    IF NumberShape(s)
    THEN IF Less(U64_MAX, ValueOf(DigitsOf(s)))
         THEN val = None /\ res.tag = "Err" /\ res.code = 24
         ELSE val.tag = "Some"
    ELSE val = None /\ res.tag = "Err" /\ res.code = 22

\* C5: a substring of one of the two number shapes fails with 24 if and
\* only if the value of its digits exceeds 2^64 - 1, on either side of the
\* fraction; a substring of neither shape fails with 22, never 24.
C5_OverflowIffTooLarge ==
    /\ (inp_nom.tag = "Some" /\ pc \notin {"split", "num"}) =>
          ClaimedConversion(inp_nom.val, val_num, result)
    /\ (val_num.tag = "Some" /\ pc \notin {"split", "num", "den"}) =>
          ClaimedConversion(inp_den.val, val_den, result)

\* the single digit U+0663, of value 3, was refused with 24
C5_Witness ==
    /\ pc = "done"
    /\ inp_nom = Some(<<"u0663">>)
    /\ val_num = None
    /\ IsErr(24)

\* ------------------------------------------------------------------------
\* C6
\* ------------------------------------------------------------------------

\* C6: for converted sides (mN, sN), (mD, sD) and diff = |sN - sD| the
\* aligner ends with 16 iff 10^diff > 2^64 - 1 (diff >= 20); otherwise with
\* 18 iff sN > sD and mD * 10^diff > 2^64 - 1; otherwise with 20 iff
\* sN <= sD and mN * 10^diff > 2^64 - 1; otherwise with the fraction
\* {mN, mD * 10^diff} (sN > sD) or {mN * 10^diff, mD} (sN <= sD).
C6_Aligner ==
    (val_num.tag = "Some" /\ val_den.tag = "Some" /\ pc \notin {"p10", "scale"}) =>
        LET mN == val_num.val.mant
            sN == val_num.val.exp
            mD == val_den.val.mant
            sD == val_den.val.exp
            diff == IF sN > sD THEN sN - sD ELSE sD - sN
        IN  /\ Less(U64_MAX, Pow10(diff)) <=> diff >= 20
            /\ IF diff >= 20
               THEN IsErr(16) /\ mfr_dat = None
               ELSE IF sN > sD /\ Less(U64_MAX, Shift(mD, diff))
               THEN IsErr(18) /\ mfr_dat = None
               ELSE IF sN <= sD /\ Less(U64_MAX, Shift(mN, diff))
               THEN IsErr(20) /\ mfr_dat = None
               ELSE /\ mfr_dat = Some(IF sN > sD
                                      THEN Fract(mN, Shift(mD, diff))
                                      ELSE Fract(Shift(mN, diff), mD))
                    /\ ~(IsErr(16) \/ IsErr(18) \/ IsErr(20))

\* the denominator's scaling overflowed although 10^diff did not
C6_Witness ==
    /\ IsErr(18)
    /\ val_num.val.mant # Zero
    /\ exp_p10.val < 20
    /\ val_p10.tag = "Some"

\* ------------------------------------------------------------------------
\* C7
\* ------------------------------------------------------------------------

\* get_fract ended on an input with one '/' whose sides both converted and
\* whose denominator has mantissa 0
ZeroDenominator ==
    /\ call = "get_fract"
    /\ pc = "done"
    /\ SlashCount(inp_fract) = 1
    /\ val_num.tag = "Some"
    /\ val_den.tag = "Some"
    /\ val_den.val.mant = Zero

\* C7 as claimed: every input with one '/' whose sides both convert and
\* whose denominator mantissa is 0 fails with 26.
C7_ZeroDenominatorIs26 == ZeroDenominator => IsErr(26)

\* C7 as amended: such an input always fails, with 16 when the exponents
\* differ by 20 or more, with 20 when sN <= sD and mN * 10^diff exceeds
\* 2^64 - 1, and with 26 in every other case.
C7_ZeroDenominatorFails ==
    ZeroDenominator =>
        LET mN == val_num.val.mant
            sN == val_num.val.exp
            sD == val_den.val.exp
            diff == IF sN > sD THEN sN - sD ELSE sD - sN
        IN  IF diff >= 20 THEN IsErr(16)
            ELSE IF sN <= sD /\ Less(U64_MAX, Shift(mN, diff)) THEN IsErr(20)
            ELSE IsErr(26)

\* "n,f/0": the zero denominator was scaled (0 * 10^diff = 0) and refused
C7_Witness ==
    /\ ZeroDenominator
    /\ val_num.val.exp > val_den.val.exp
    /\ val_num.val.mant # Zero
    /\ mfr_dat.tag = "Some"
    /\ IsErr(26)

\* ------------------------------------------------------------------------
\* C8
\* ------------------------------------------------------------------------

\* C8: get_norm({numer, 0}) fails with 26 for every numer, 0 included, and
\* get_norm({0, denom}) with denom >= 1 returns {0, 1} without a pass of
\* the loop; "0/5" yields {0, 1}.
C8_EarlyReturns ==
    /\ (mfr_dat.tag = "Some" /\ pc # "norm") =>
          /\ mfr_dat.val.denom = Zero =>
                IsErr(26) /\ pc = "done" /\ iters = 0
          /\ (mfr_dat.val.denom # Zero /\ mfr_dat.val.numer = Zero) =>
                result = Ok(Fract(Zero, One)) /\ pc = "done" /\ iters = 0
    /\ (inp_fract = <<"0", "/", "5">> /\ pc = "done") =>
          result = Ok(Fract(Zero, One))

\* get_norm({0, 0}) was refused with 26
C8_Witness ==
    /\ pc = "done"
    /\ mfr_dat = Some(Fract(Zero, Zero))
    /\ IsErr(26)
    /\ iters = 0

\* ------------------------------------------------------------------------
\* C9
\* ------------------------------------------------------------------------

Codes == {14, 16, 18, 20, 22, 24, 26}

\* the error of the first stage that fails on inp, in the order split,
\* numerator, denominator, power of ten, scaling, zero denominator; None
\* when no stage fails
FirstFailure(inp) ==
    LET sp == split_fract(inp)
    IN  IF sp.tag = "Err" THEN Some(sp) ELSE
    LET n == get_num("Num", sp.val.inp_nom)
    IN  IF n.tag = "Err" THEN Some(n) ELSE
    LET d == get_num("Den", sp.val.inp_den)
    IN  IF d.tag = "Err" THEN Some(d) ELSE
    LET p == power_of_ten(abs_diff(n.val, d.val))
    IN  IF p.tag = "Err" THEN Some(p) ELSE
    LET m == scale_sides(n.val, d.val, p.val)
    IN  IF m.tag = "Err" THEN Some(m) ELSE
    IF m.val.denom = Zero THEN Some(Err(26, <<"Division by zero">>)) ELSE None

\* the outputs of the stages appear in the order of the stages
InStageOrder ==
    /\ val_num.tag = "Some" => inp_nom.tag = "Some" /\ inp_den.tag = "Some"
    /\ val_den.tag = "Some" => val_num.tag = "Some"
    /\ exp_p10.tag = "Some" => val_den.tag = "Some"
    /\ val_p10.tag = "Some" => exp_p10.tag = "Some"
    /\ mfr_dat.tag = "Some" => val_p10.tag = "Some"
    /\ iters > 0 => mfr_dat.tag = "Some"

\* no stage after the one that reported code c has run
StoppedAt(c) ==
    /\ c = 14 => inp_nom = None
    /\ c \in {14, 22, 24} => val_den = None /\ exp_p10 = None
    /\ c = 16 => val_p10 = None
    /\ c \in {14, 16, 18, 20, 22, 24} => mfr_dat = None
    /\ c \in Codes => iters = 0

OneOutcome ==
    call = "get_fract" =>
        /\ InStageOrder
        /\ (result # None) <=> (pc = "done")
        /\ pc = "done" =>
              LET f == FirstFailure(inp_fract)
              IN  IF f.tag = "Some"
                  THEN /\ result = f.val
                       /\ result.code \in Codes
                       /\ StoppedAt(result.code)
                  ELSE IsOk

\* C9: every call of get_fract ends in one outcome, Ok or one error with a
\* code of {14, 16, 18, 20, 22, 24, 26}; the error is that of the first
\* failing stage in the order split, numerator, denominator, power of ten,
\* scaling, zero check, returned unchanged; no stage runs after a failure
\* and nothing changes once the outcome is there.
C9_FirstFailureWins == []OneOutcome /\ [][result = None]_vars

\* both sides were bad, the denominator too large (24), and the numerator's
\* error 22 is the one reported
C9_Witness ==
    /\ call = "get_fract"
    /\ pc = "done"
    /\ IsErr(22)
    /\ inp_nom.tag = "Some"
    /\ PlainDigits(inp_den.val)
    /\ get_num("Den", inp_den.val).tag = "Err"
    /\ get_num("Den", inp_den.val).code = 24

\* ------------------------------------------------------------------------
\* C10
\* ------------------------------------------------------------------------

\* get_norm reached its loop: numer >= 1 and denom >= 1
InLoop == pc = "loop"

LoopExitState ==
    (InLoop /\ xb = Zero) =>
        /\ LessEq(One, xa)
        /\ IsGCD(xa, mfr_dat.val.numer, mfr_dat.val.denom)
        /\ Mod(mfr_dat.val.numer, xa) = Zero
        /\ Mod(mfr_dat.val.denom, xa) = Zero

LoopResult ==
    (pc = "done" /\ iters > 0) =>
        /\ IsOk
        /\ Mul(result.val.numer, xa) = mfr_dat.val.numer
        /\ Mul(result.val.denom, xa) = mfr_dat.val.denom

\* C10: for numer >= 1 and denom >= 1 the loop terminates, xb strictly
\* decreases from the second pass on, on exit xa = gcd(numer, denom) >= 1,
\* and the two final divisions do not divide by zero and are exact.
C10_EuclidTerminates ==
    /\ [](InLoop => <>(pc = "done"))
    /\ [][(InLoop /\ iters >= 1 /\ iters' = iters + 1) => Less(xb', xb)]_vars
    /\ [](InLoop => mfr_dat.val.numer # Zero /\ mfr_dat.val.denom # Zero)
    /\ []LoopExitState
    /\ []LoopResult

\* the loop ran three passes or more and found a gcd above 1
C10_Witness ==
    /\ pc = "done"
    /\ iters >= 3
    /\ IsOk
    /\ Less(One, xa)

====
